---- MODULE Spec2Model ----
(***************************************************************************)
(* The chat submit/poll protocol of openderisk_cli:                        *)
(*   client/chat.py  ChatClient.chat_completions  (the generator)          *)
(*   client/http.py  OpenDeriskHttpClient._make_request (the transport)    *)
(*   exceptions.py   the error classes                                     *)
(* One generator run is a state machine whose steps are the generator's    *)
(* blocking points: the POST, the initial sleep, each GET, each 1-second   *)
(* sleep, the yield.  Time is a wall clock in whole seconds.               *)
(***************************************************************************)
EXTENDS Integers, Sequences, FiniteSets, TLC

\* ------------------------------------------------------------------ bounds
MaxTimeout == 3
MaxRetries == 2
MaxInitialDelay == 2
MaxNetDelay == 1
MaxOversleep == 1

\* the arguments a caller may pass (a non-positive timeout and a negative
\* retry budget are legal Python arguments)
TimeoutValues == (0 - 1)..MaxTimeout
RetryValues == (0 - 1)..MaxRetries
InitialDelayValues == 0..MaxInitialDelay

\* ------------------------------------------------- JSON values and Python
\* A missing key and a JSON null both read as None through dict.get(key).
Absent == "<absent>"
Null == "<null>"

\* bool(v) of a value that came out of dict.get
Truthy(v) == v \notin {Absent, Null, "false", ""}

\* dict.get(key, default): the default replaces a missing key only
GetOr(v, default) == IF v = Absent THEN default ELSE v

\* the "data" member of an envelope: t says what JSON value it is
AbsentData == [t |-> "absent", conv_id |-> Absent, is_final |-> Absent, user_answer |-> Absent]
NullData == [t |-> "null", conv_id |-> Absent, is_final |-> Absent, user_answer |-> Absent]
EmptyDictData == [t |-> "dict", conv_id |-> Absent, is_final |-> Absent, user_answer |-> Absent]

\* response.get("data", {})
GetData(resp) == IF resp.data.t = "absent" THEN EmptyDictData ELSE resp.data

\* {} as a parsed body
EmptyDict == [kind |-> "dict", success |-> Absent, code |-> Absent, text |-> Absent, data |-> AbsentData]
\* a local variable that has not been assigned yet
Unbound == [kind |-> "unbound", success |-> Absent, code |-> Absent, text |-> Absent, data |-> AbsentData]
\* {"text": response.text}
TextDict == [kind |-> "dict", success |-> Absent, code |-> Absent, text |-> "raw", data |-> AbsentData]

Envelope(success, code, data) == [kind |-> "dict", success |-> success, code |-> code, text |-> Absent, data |-> data]

\* ------------------------------------------------------------- exceptions
\* class -> base class
BaseClass(c) ==
    CASE c = "OpenDeriskError" -> "Exception"
      [] c = "ConfigError" -> "OpenDeriskError"
      [] c = "APIError" -> "OpenDeriskError"
      [] c = "ValidationError" -> "OpenDeriskError"
      [] c = "TimeoutError" -> "OpenDeriskError"
      [] c = "AttributeError" -> "Exception"
      [] OTHER -> "object"

RECURSIVE IsSubclass(_, _)
IsSubclass(c, d) ==
    IF c = d THEN TRUE
    ELSE IF c = "object" THEN FALSE
    ELSE IsSubclass(BaseClass(c), d)

NoException == [type |-> "none", message |-> "", status_code |-> {}, response |-> EmptyDict, suggestion |-> ""]

\* APIError(message, status_code, response, suggestion); response or {}
APIError(message, status_code, response, suggestion) ==
    [type |-> "APIError", message |-> message, status_code |-> status_code,
     response |-> response, suggestion |-> suggestion]

\* f"The chat did not complete within {timeout} seconds."
\* (variant: the default timeout hard-coded in the message)
TimeoutSuggestion_Default(t) == "The chat did not complete within 300 seconds."
TimeoutSuggestion(t) == "The chat did not complete within " \o ToString(t) \o " seconds."

TimeoutError(message, suggestion) ==
    [type |-> "TimeoutError", message |-> message, status_code |-> {},
     response |-> EmptyDict, suggestion |-> suggestion]

\* 'NoneType' object has no attribute 'get'
AttributeError ==
    [type |-> "AttributeError", message |-> "object has no attribute 'get'",
     status_code |-> {}, response |-> EmptyDict, suggestion |-> ""]

\* -------------------------------------------------------------- transport
\* What the server (or the network) does with one request.
\*   conn:    "ok" | "error"     (httpx.RequestError)
\*   status:  the HTTP status
\*   content: "empty" | "garbage" | "json"
\*   json:    the parsed body when content = "json"
Wire(conn, status, content, json) == [conn |-> conn, status |-> status, content |-> content, json |-> json]

\* response.raise_for_status() passes
\* (variant: the status not checked)
IsSuccessStatus_NotChecked(status) == TRUE
IsSuccessStatus(status) == 200 <= status /\ status < 300

\* _safe_parse_json
\* (variant: no fallback to the raw text)
SafeParseJson_NoFallback(w) == w.json
SafeParseJson(w) == IF w.content = "json" THEN w.json ELSE TextDict

Returned(v) == [raised |-> FALSE, value |-> v, exc |-> NoException]
Raised(e) == [raised |-> TRUE, value |-> EmptyDict, exc |-> e]

\* _make_request: the parsed body, or APIError
MakeRequest(w) ==
    IF w.conn = "error"
    THEN Raised(APIError("Network error", {}, EmptyDict,
                         "Check your network connection and try again"))
    ELSE IF ~IsSuccessStatus(w.status)
    THEN Raised(APIError("API request failed", {w.status}, SafeParseJson(w),
                         "Check your request parameters and try again"))
    ELSE IF w.content = "empty" THEN Returned(EmptyDict)
    ELSE IF w.content = "garbage"
    THEN Raised(APIError("Server returned invalid JSON response", {}, EmptyDict,
                         "Please check if the server is running properly"))
    ELSE Returned(w.json)

\* ------------------------------------------------------ what a server sends
ConvIds == {"c1", "c2"}

SubmitDatas ==
    {AbsentData, NullData}
    \cup {[t |-> "dict", conv_id |-> c, is_final |-> Absent, user_answer |-> Absent] :
            c \in ConvIds \cup {Absent, ""}}

SubmitWires ==
    {Wire("error", 200, "empty", EmptyDict),
     Wire("ok", 500, "garbage", EmptyDict),
     Wire("ok", 500, "json", Envelope("false", "E0001", NullData)),
     Wire("ok", 200, "garbage", EmptyDict),
     Wire("ok", 200, "empty", EmptyDict)}
    \cup {Wire("ok", 200, "json", Envelope(s, Absent, d)) :
            s \in {"true", "false", Absent}, d \in SubmitDatas}

PollDatas ==
    {AbsentData, NullData, EmptyDictData}
    \cup {[t |-> "dict", conv_id |-> Absent, is_final |-> f, user_answer |-> a] :
            f \in {"true", "false"}, a \in {"X", "", Absent}}

PollWires ==
    {Wire("error", 200, "empty", EmptyDict),
     Wire("ok", 500, "garbage", EmptyDict),
     Wire("ok", 500, "json", Envelope("false", "E0103", NullData)),
     Wire("ok", 200, "garbage", EmptyDict),
     Wire("ok", 200, "empty", EmptyDict)}
    \cup {Wire("ok", 200, "json", Envelope(s, c, NullData)) :
            s \in {"false", Absent}, c \in {"E0103", "E0001", Absent}}
    \cup {Wire("ok", 200, "json", Envelope("true", Absent, d)) : d \in PollDatas}

\* --------------------------------------------------------------- the state
VARIABLES
    timeout, max_retries, initial_delay,   \* the arguments of this run
    pc,                                    \* where the generator stands
    clock,                                 \* time.time()
    response,                              \* the submit response
    conv_id, retry_count, start_time,      \* chat_completions' locals
    query_response,                        \* the last poll response
    chunks,                                \* what the generator has yielded
    exc,                                   \* the exception that ended the run
    log,                                   \* the requests and waits, in order
    replies,                               \* what each poll received
    t_submit,                              \* clock when the submit returned
    t_sleep_end,                           \* clock when the initial sleep returned
    t_get,                                 \* clock when the last GET started
    exchanges                              \* the requests sent, each with the status answered

\* state of the callers and collaborators of chat_completions
VARIABLES
    result_chunks,                         \* chat_async: the chunks collected
    async_out,                             \* chat_async: what it returned or raised
    cur,                                   \* two sessions: the one whose thread runs
    other,                                 \* two sessions: the frame of the waiting one
    calls                                  \* two sessions: the arguments each was called with

\* state of the other facade operations and of the HTTP client
VARIABLES
    fop,                                   \* facade: the operation called last
    fwire,                                 \* facade: what the server did with its request
    fout,                                  \* facade: what the operation returned or raised
    session,                               \* http: self._client (0 is None, n the n-th httpx.Client)
    created,                               \* http: how many httpx.Client objects were created
    used,                                  \* http: the sessions requests went through since the last close
    requested,                             \* http: a request was made since construction or the last close
    scope,                                 \* http: "in" inside a with block, else "out"
    last_call,                             \* http: the operation called last
    http_wire,                             \* http: what the server did with the last request
    http_out                               \* http: what the last request returned or raised

\* state of the request builder, of the configuration and of the threads
\* that share one HTTP client
VARIABLES
    call,                                  \* payload: the arguments chat_completions was called with
    body,                                  \* payload: the body it posts
    cfg_in,                                \* config: environment, config file and command line
    cfg,                                   \* config: the configuration as resolved so far
    tpc,                                   \* threads: where each thread stands in the client property
    open_sessions                          \* threads: the httpx.Client objects created and not closed

more == <<call, body, cfg_in, cfg, tpc, open_sessions>>

side == <<fop, fwire, fout, session, created, used, requested, scope, last_call,
          http_wire, http_out, more>>

\* everything but the state of the chat_completions run
aux == <<result_chunks, async_out, cur, other, calls, side>>

vars == <<timeout, max_retries, initial_delay, pc, clock, response, conv_id,
          retry_count, start_time, query_response, chunks, exc, log, replies,
          t_submit, t_sleep_end, t_get, exchanges, aux>>

args == <<timeout, max_retries, initial_delay>>

\* an operation that has not been called, or has not finished
NoOutcome == [kind |-> "none", value |-> "", exc |-> NoException]

\* a facade operation that has not been called
NoFacadeOutcome == [kind |-> "none", flag |-> Absent, items |-> <<>>, exc |-> NoException]

\* no request has been sent
NoWire == Wire("none", 0, "empty", EmptyDict)

\* nothing has been built, loaded or started
NoBody == [t |-> "none"]
NoConfig == [stage |-> "none"]

MoreIdle ==
    /\ call = NoBody
    /\ body = NoBody
    /\ cfg_in = NoConfig
    /\ cfg = NoConfig
    /\ tpc = <<>>
    /\ open_sessions = {}

\* http.py line 32: self._client = None; no facade operation was called
SideIdle ==
    /\ MoreIdle
    /\ fop = "none"
    /\ fwire = NoWire
    /\ fout = NoFacadeOutcome
    /\ session = 0
    /\ created = 0
    /\ used = {}
    /\ requested = FALSE
    /\ scope = "out"
    /\ last_call = "init"
    /\ http_wire = NoWire
    /\ http_out = Returned(Unbound)

\* nothing but chat_completions is running
AuxIdle ==
    /\ result_chunks = <<>>
    /\ async_out = NoOutcome
    /\ cur = 0
    /\ other = <<>>
    /\ calls = <<>>
    /\ SideIdle

\* the generator has been created and not started
InitRun ==
    /\ pc = "submit"
    /\ clock = 0
    /\ response = Unbound
    /\ conv_id = Absent
    /\ retry_count = 0
    /\ start_time = 0
    /\ query_response = Unbound
    /\ chunks = <<>>
    /\ exc = NoException
    /\ log = <<>>
    /\ replies = <<>>
    /\ t_submit = 0
    /\ t_sleep_end = 0
    /\ t_get = 0
    /\ exchanges = <<>>

Init ==
    /\ timeout \in TimeoutValues
    /\ max_retries \in RetryValues
    /\ initial_delay \in InitialDelayValues
    /\ InitRun
    /\ AuxIdle


\* ------------------------------------------------ chat_completions, steps
\* the 1-second cadence of the polling loop: time.sleep(1)
PollInterval == 1

\* time.sleep(d) returns after at least d seconds
\* (variant: a clock that stands still while the thread sleeps)
SleepEnds_FrozenClock(d) == {clock}
SleepEnds(d) == {clock + d + o : o \in 0..MaxOversleep}

\* a network call takes some time
CallEnds == {clock + d : d \in 0..MaxNetDelay}

\* lines 78-81: self.http_client.post("/api/v1/chat/completions", json=body)
SubmitRequest == [method |-> "POST", path |-> "/api/v1/chat/completions", conv_id |-> Absent]

\* lines 98-101: self.http_client.get("/api/v1/chat/query", params={"conv_id": conv_id})
\* (variant: the conversation named by a constant)
PollRequest_FixedConv(cid) == [method |-> "GET", path |-> "/api/v1/chat/query", conv_id |-> "c1"]
PollRequest(cid) == [method |-> "GET", path |-> "/api/v1/chat/query", conv_id |-> cid]

\* lines 234-237, stop_chat: the request chat_completions never makes
StopRequest(cid) == [method |-> "POST", path |-> "/api/v1/chat/stop", conv_id |-> cid]

\* a request and the HTTP status it was answered with (0: no answer)
Exchange(req, w) ==
    [method |-> req.method, path |-> req.path, conv_id |-> req.conv_id,
     status |-> IF w.conn = "ok" THEN w.status ELSE 0]

\* what a poll received, in the vocabulary of the protocol (observation only)
ReplyTag(r) ==
    IF r.raised THEN "transport_error"
    ELSE IF r.value.success \notin {"true"}
         THEN (IF r.value.code = "E0103" THEN "E0103" ELSE "failed")
    ELSE IF r.value.data.t = "null" THEN "malformed"
    ELSE IF r.value.data.is_final = "true"
         THEN (IF r.value.data.user_answer \in {Absent, Null, ""}
               THEN "final_empty" ELSE "final")
    ELSE "pending"

\* the generator ends by raising e
Raise(e) ==
    /\ pc' = "raised"
    /\ exc' = e

\* lines 78-81 and 98-101: the http_client calls stand outside any try block,
\* so what _make_request raises leaves the generator as it is
\* (variant: a catch-all around the loop that reports a timeout)
Propagate_AsTimeout(e) == [e EXCEPT !.type = "TimeoutError", !.message = "Chat timed out"]
Propagate(e) == e

\* lines 83-89: the checks on the submit response; the conv_id, or the error
SubmitCheck(resp) ==
    IF ~Truthy(resp.success)
    THEN [ok |-> FALSE, conv_id |-> Absent,
          exc |-> APIError("Failed to submit chat", {}, resp, "")]
    ELSE IF GetData(resp).t # "dict"
    THEN [ok |-> FALSE, conv_id |-> Absent, exc |-> AttributeError]
    ELSE IF ~Truthy(GetData(resp).conv_id)
    THEN [ok |-> FALSE, conv_id |-> Absent,
          exc |-> APIError("No conv_id in response", {}, resp, "")]
    ELSE [ok |-> TRUE, conv_id |-> GetData(resp).conv_id, exc |-> NoException]

\* lines 56-91: build the request, POST it, check the response
Submit ==
    /\ pc = "submit"
    /\ \E w \in SubmitWires, t \in CallEnds :
         LET r == MakeRequest(w)
             c == SubmitCheck(r.value)
         IN /\ clock' = t
            /\ t_submit' = t
            /\ log' = Append(log, "POST")
            /\ exchanges' = Append(exchanges, Exchange(SubmitRequest, w))
            /\ IF r.raised
               THEN /\ Raise(Propagate(r.exc))
                    /\ UNCHANGED <<response, conv_id>>
               ELSE /\ response' = r.value
                    /\ IF c.ok
                       THEN /\ conv_id' = c.conv_id
                            /\ pc' = "initial_sleep"
                            /\ UNCHANGED exc
                       ELSE /\ Raise(c.exc)
                            /\ UNCHANGED conv_id
    /\ UNCHANGED <<args, retry_count, start_time, query_response, chunks,
                   replies, t_sleep_end, t_get>>
    /\ UNCHANGED aux

\* line 93: time.sleep(initial_delay)
\* (variant: polling at once, without the grace period)
InitialSleepEnds_NoSleep == {clock}
InitialSleepEnds == SleepEnds(initial_delay)

\* line 96: start_time = time.time(), read after the sleep has returned
\* (variant: the budget started before the sleep)
StartTime_BeforeSleep(before, after) == before
StartTime(before, after) == after

\* lines 93-96: time.sleep(initial_delay); retry_count = 0; start_time = time.time()
InitialSleep ==
    /\ pc = "initial_sleep"
    /\ \E t \in InitialSleepEnds :
         /\ clock' = t
         /\ t_sleep_end' = t
         /\ start_time' = StartTime(clock, t)
    /\ retry_count' = 0
    /\ log' = Append(log, "SLEEP_INITIAL")
    /\ pc' = "while"
    /\ UNCHANGED <<args, response, conv_id, query_response, chunks, exc,
                   replies, t_submit, t_get, exchanges>>
    /\ UNCHANGED aux

\* line 97: time.time() - start_time < timeout
\* (variant: <= in place of <)
LoopCondition_Inclusive(now, start, tmo) == now - start <= tmo
LoopCondition(now, start, tmo) == now - start < tmo

\* line 105: error_code == "E0103" and retry_count < max_retries
\* (variants: off-by-one budgets, and a guard that ignores the code)
IsTransient_OneShort(resp, count, budget) ==
    /\ GetOr(resp.code, "") = "E0103"
    /\ count + 1 < budget
IsTransient_OneMore(resp, count, budget) ==
    /\ GetOr(resp.code, "") = "E0103"
    /\ count <= budget
IsTransient_AnyCode(resp, count, budget) == count < budget
IsTransient_NoBudget(resp, count, budget) == GetOr(resp.code, "") = "E0103"
IsTransient(resp, count, budget) ==
    /\ GetOr(resp.code, "") = "E0103"
    /\ count < budget

\* line 116: if is_final, with is_final = query_data.get("is_final", False)
\* (variant: any answer text taken as the completed answer)
IsFinal_OrAnswer(data) ==
    Truthy(GetOr(data.is_final, "false")) \/ Truthy(GetOr(data.user_answer, ""))
IsFinal(data) == Truthy(GetOr(data.is_final, "false"))

\* line 117: if user_answer, with user_answer = query_data.get("user_answer", "")
\* (variant: the answer yielded without the emptiness test)
HasAnswer_Always(data) == TRUE
HasAnswer(data) == Truthy(GetOr(data.user_answer, ""))

\* lines 112-121: the success branch does not assign retry_count
\* (variant: a streak counter, reset by a successful poll)
CountAfterSuccess_Reset(count) == 0
CountAfterSuccess(count) == count

\* lines 103-121: what the loop body does with a poll response
\*   next: "sleep" (continue after a wait) | "yield" | "return" | "raise"
PollStep(resp, count, budget) ==
    IF ~Truthy(resp.success)
    THEN IF IsTransient(resp, count, budget)
         THEN [next |-> "sleep", count |-> count + 1, chunk |-> Absent, exc |-> NoException]
         ELSE [next |-> "raise", count |-> count, chunk |-> Absent,
               exc |-> APIError("Failed to query chat status", {}, resp, "")]
    ELSE IF GetData(resp).t # "dict"
    THEN [next |-> "raise", count |-> count, chunk |-> Absent, exc |-> AttributeError]
    ELSE IF IsFinal(GetData(resp))
    THEN IF HasAnswer(GetData(resp))
         THEN [next |-> "yield", count |-> count,
               chunk |-> GetData(resp).user_answer, exc |-> NoException]
         ELSE [next |-> "return", count |-> count, chunk |-> Absent, exc |-> NoException]
    ELSE [next |-> "sleep", count |-> CountAfterSuccess(count), chunk |-> Absent,
          exc |-> NoException]

\* lines 108-109 and 121: both ways back to the loop condition, after a
\* tolerated E0103 and after a non-final status, pass through time.sleep(1)
\* (variant: the retry after E0103 made at once)
Continue_RetryAtOnce(resp) == IF Truthy(resp.success) THEN "sleep" ELSE "while"
Continue(resp) == "sleep"

\* lines 98-121: the loop body reads no clock, so the time at which the
\* response arrives does not enter into how it is handled
\* (variant: the budget checked again when the response arrives)
DeadlinePassed_OnResponse(now, start, tmo) == now - start >= tmo
DeadlinePassed(now, start, tmo) == FALSE

\* lines 97-121: the loop condition holds; GET the status and act on it
Poll ==
    /\ pc = "while"
    /\ LoopCondition(clock, start_time, timeout)
    /\ \E w \in PollWires, t \in CallEnds :
         LET r == MakeRequest(w)
             s == PollStep(r.value, retry_count, max_retries)
         IN /\ t_get' = clock
            /\ clock' = t
            /\ log' = Append(log, "GET")
            /\ exchanges' = Append(exchanges, Exchange(PollRequest(conv_id), w))
            /\ replies' = Append(replies, ReplyTag(r))
            /\ IF r.raised
               THEN /\ Raise(Propagate(r.exc))
                    /\ UNCHANGED <<query_response, retry_count, chunks>>
               ELSE /\ query_response' = r.value
                    /\ retry_count' = s.count
                    /\ CASE DeadlinePassed(t, start_time, timeout) ->
                              /\ Raise(TimeoutError("Chat timed out", TimeoutSuggestion(timeout)))
                              /\ UNCHANGED chunks
                         [] s.next = "sleep" ->
                              /\ pc' = Continue(r.value)
                              /\ UNCHANGED <<chunks, exc>>
                         [] s.next = "yield" ->
                              /\ pc' = "yielded"
                              /\ chunks' = Append(chunks, s.chunk)
                              /\ UNCHANGED exc
                         [] s.next = "return" ->
                              /\ pc' = "done"
                              /\ UNCHANGED <<chunks, exc>>
                         [] s.next = "raise" ->
                              /\ Raise(s.exc)
                              /\ UNCHANGED chunks
    /\ UNCHANGED <<args, response, conv_id, start_time, t_submit, t_sleep_end>>
    /\ UNCHANGED aux

\* lines 108 and 121: time.sleep(1), then back to the loop condition
Sleep ==
    /\ pc = "sleep"
    /\ \E t \in SleepEnds(PollInterval) : clock' = t
    /\ log' = Append(log, "SLEEP")
    /\ pc' = "while"
    /\ UNCHANGED <<args, response, conv_id, retry_count, start_time,
                   query_response, chunks, exc, replies, t_submit, t_sleep_end, t_get, exchanges>>
    /\ UNCHANGED aux

\* line 119: the caller asks for the next chunk after the yield; return
Resume ==
    /\ pc = "yielded"
    /\ pc' = "done"
    /\ UNCHANGED <<args, clock, response, conv_id, retry_count, start_time,
                   query_response, chunks, exc, log, replies, t_submit, t_sleep_end, t_get, exchanges>>
    /\ UNCHANGED aux

\* lines 97, 123-126: the loop condition fails; raise TimeoutError
Timeout ==
    /\ pc = "while"
    /\ ~LoopCondition(clock, start_time, timeout)
    /\ Raise(TimeoutError("Chat timed out", TimeoutSuggestion(timeout)))
    /\ UNCHANGED <<args, clock, response, conv_id, retry_count, start_time,
                   query_response, chunks, log, replies, t_submit, t_sleep_end, t_get, exchanges>>
    /\ UNCHANGED aux

Next ==
    \/ Submit
    \/ InitialSleep
    \/ Poll
    \/ Sleep
    \/ Resume
    \/ Timeout

Spec == Init /\ [][Next]_vars

\* Every network call returns, every sleep ends and the caller asks for the
\* next chunk: a step that can be taken is taken.
SpecLive == Init /\ [][Next]_vars /\ WF_vars(Next)

\* ------------------------------------------------- the caller walks away
\* lines 116-119: the yield stands in no try/finally and the generator has no
\* except clause, so closing it (GeneratorExit at the yield, or before the
\* first next()) runs no statement of chat_completions: no request is made
\* (variant: a finally clause that stops the remote job)
CloseRequests_StopRemote == <<"POST">>
CloseRequests == <<>>

\* The caller closes the generator or drops it.  A generator runs only inside
\* the caller's next(), so the caller can do this only while the generator is
\* suspended: before its first next() or at its yield.
Abandon ==
    /\ pc \in {"submit", "yielded"}
    /\ pc' = "closed"
    /\ log' = log \o CloseRequests
    /\ exchanges' = exchanges \o [i \in 1..Len(CloseRequests) |-> Exchange(StopRequest(conv_id), NoWire)]
    /\ UNCHANGED <<args, clock, response, conv_id, retry_count, start_time,
                   query_response, chunks, exc, replies, t_submit, t_sleep_end, t_get>>
    /\ UNCHANGED aux

NextAbandon ==
    \/ Next
    \/ Abandon

SpecAbandon == Init /\ [][NextAbandon]_vars

\* ------------------------------------------------------------- two sessions
\* Two chat_completions generators run on two threads against one wall
\* clock.  The variables of the run are the frame of the thread that runs;
\* the frame of the other thread waits in `other`.

\* lines 22-126: the arguments and locals of one generator frame, with what
\* was observed of that session
Frame ==
    [timeout |-> timeout, max_retries |-> max_retries, initial_delay |-> initial_delay,
     pc |-> pc, response |-> response, conv_id |-> conv_id,
     retry_count |-> retry_count, start_time |-> start_time,
     query_response |-> query_response, chunks |-> chunks, exc |-> exc,
     log |-> log, replies |-> replies, t_submit |-> t_submit,
     t_sleep_end |-> t_sleep_end, t_get |-> t_get, exchanges |-> exchanges]

\* lines 86-96: conv_id, retry_count and start_time are locals of the
\* generator frame, so a thread that runs again finds them as it left them
\* (variant: the retry counter kept on the client object, shared by the sessions)
Resumed_SharedRetryCount(saved, running) ==
    [saved EXCEPT !.retry_count = running.retry_count]
Resumed(saved, running) == saved

\* the arguments the two sessions are called with
TwoArgs ==
    [timeout : {2}, max_retries : {0, 1}, initial_delay : {1}]

\* a frame whose generator has been created and not started
NewFrame(a) ==
    [timeout |-> a.timeout, max_retries |-> a.max_retries, initial_delay |-> a.initial_delay,
     pc |-> "submit", response |-> Unbound, conv_id |-> Absent,
     retry_count |-> 0, start_time |-> 0,
     query_response |-> Unbound, chunks |-> <<>>, exc |-> NoException,
     log |-> <<>>, replies |-> <<>>, t_submit |-> 0,
     t_sleep_end |-> 0, t_get |-> 0, exchanges |-> <<>>]

InitTwo ==
    /\ \E a \in TwoArgs, b \in TwoArgs :
         /\ timeout = a.timeout
         /\ max_retries = a.max_retries
         /\ initial_delay = a.initial_delay
         /\ other = NewFrame(b)
         /\ calls = <<a, b>>
    /\ cur = 1
    /\ InitRun
    /\ result_chunks = <<>>
    /\ async_out = NoOutcome
    /\ SideIdle

\* the scheduler lets the other thread run
Switch ==
    /\ LET f == Resumed(other, Frame)
       IN /\ timeout' = f.timeout
          /\ max_retries' = f.max_retries
          /\ initial_delay' = f.initial_delay
          /\ pc' = f.pc
          /\ response' = f.response
          /\ conv_id' = f.conv_id
          /\ retry_count' = f.retry_count
          /\ start_time' = f.start_time
          /\ query_response' = f.query_response
          /\ chunks' = f.chunks
          /\ exc' = f.exc
          /\ log' = f.log
          /\ replies' = f.replies
          /\ t_submit' = f.t_submit
          /\ t_sleep_end' = f.t_sleep_end
          /\ t_get' = f.t_get
          /\ exchanges' = f.exchanges
    /\ other' = Frame
    /\ cur' = 3 - cur
    /\ UNCHANGED <<clock, result_chunks, async_out, calls, side>>

\* the server behaviours followed for two sessions: a submit that is
\* accepted, and polls answered with E0103, a non-final status or the final
\* answer
TwoSessionReplies ==
    /\ response \in {Unbound}
         \cup {Envelope("true", Absent,
                         [t |-> "dict", conv_id |-> c, is_final |-> Absent, user_answer |-> Absent]) :
                  c \in ConvIds}
    /\ query_response \in
         {Unbound,
          Envelope("false", "E0103", NullData),
          Envelope("true", Absent, AbsentData),
          Envelope("true", Absent,
                   [t |-> "dict", conv_id |-> Absent, is_final |-> "true", user_answer |-> "X"])}
    /\ exc.suggestion = "" \/ exc.type = "TimeoutError"

\* the timing followed for two sessions: a request takes no time and a sleep
\* lasts exactly what was asked
TwoSessionTiming ==
    clock' = clock + (IF log' = log \o <<"SLEEP">> THEN PollInterval
                      ELSE IF log' = log \o <<"SLEEP_INITIAL">> THEN initial_delay
                      ELSE 0)

\* a step of the running session
TwoStep ==
    /\ Next
    /\ TwoSessionReplies'
    /\ TwoSessionTiming

NextTwo ==
    \/ TwoStep
    \/ Switch

SpecTwo == InitTwo /\ [][NextTwo]_vars

\* ---------------------------------------------------------------- chat_async
\* chat_async passes only timeout on: max_retries and initial_delay keep the
\* defaults of chat_completions
DefaultMaxRetries == 10
DefaultInitialDelay == 2

\* line 159: "".join(result_chunks)
RECURSIVE Join(_)
Join(parts) == IF parts = <<>> THEN "" ELSE Head(parts) \o Join(Tail(parts))

\* lines 148-159: chat_async has no try block: what the generator raises
\* leaves chat_async too, and nothing is returned
\* (variant: the error swallowed, the text collected so far returned)
AsyncFailure_Swallowed(e, parts) == [kind |-> "returned", value |-> Join(parts), exc |-> NoException]
AsyncFailure(e, parts) == [kind |-> "raised", value |-> "", exc |-> e]

InitAsync ==
    /\ timeout \in TimeoutValues
    /\ max_retries = DefaultMaxRetries
    /\ initial_delay = DefaultInitialDelay
    /\ InitRun
    /\ AuxIdle

\* lines 149-157: the for loop takes the chunk, appends it and asks for the
\* next one, which lets the generator run on from its yield to its return
AsyncCollect ==
    /\ pc = "yielded"
    /\ result_chunks' = Append(result_chunks, chunks[Len(chunks)])
    /\ pc' = "done"
    /\ UNCHANGED <<args, clock, response, conv_id, retry_count, start_time,
                   query_response, chunks, exc, log, replies, t_submit, t_sleep_end, t_get, exchanges>>
    /\ UNCHANGED <<async_out, cur, other, calls, side>>

\* line 159: the generator is exhausted; return the joined string
AsyncReturn ==
    /\ pc = "done"
    /\ async_out = NoOutcome
    /\ async_out' = [kind |-> "returned", value |-> Join(result_chunks), exc |-> NoException]
    /\ UNCHANGED <<args, pc, clock, response, conv_id, retry_count, start_time,
                   query_response, chunks, exc, log, replies, t_submit, t_sleep_end, t_get, exchanges>>
    /\ UNCHANGED <<result_chunks, cur, other, calls, side>>

\* lines 149-157: the generator raised inside next()
AsyncRaise ==
    /\ pc = "raised"
    /\ async_out = NoOutcome
    /\ async_out' = AsyncFailure(exc, result_chunks)
    /\ UNCHANGED <<args, pc, clock, response, conv_id, retry_count, start_time,
                   query_response, chunks, exc, log, replies, t_submit, t_sleep_end, t_get, exchanges>>
    /\ UNCHANGED <<result_chunks, cur, other, calls, side>>

NextAsync ==
    \/ Submit
    \/ InitialSleep
    \/ Poll
    \/ Sleep
    \/ Timeout
    \/ AsyncCollect
    \/ AsyncReturn
    \/ AsyncRaise

SpecAsync == InitAsync /\ [][NextAsync]_vars

\* ------------------------------------------------------------- properties
Terminated == pc \in {"done", "raised"}

\* the number of polls issued so far
Polls == Len(replies)

\* every poll so far received a reply of this kind
AllReplies(tag) == \A i \in 1..Len(replies) : replies[i] = tag

\* all polls but the last received a reply of this kind
EarlierReplies(tag) == \A i \in 1..(Len(replies) - 1) : replies[i] = tag

LastReply == IF replies = <<>> THEN "none" ELSE replies[Len(replies)]

LastLogged == IF log = <<>> THEN "none" ELSE log[Len(log)]

\* how many times an event was logged
Logged(ev) == Cardinality({i \in 1..Len(log) : log[i] = ev})

\* C1: no poll is issued before initial_delay seconds have passed since the
\* submit response was received, and the initial wait happens exactly once,
\* between the submit response and the first poll: every GET in the log is
\* preceded by POST then SLEEP_INITIAL, nothing else is an initial sleep, and
\* the last GET started at least initial_delay after the submit returned.
C1_NoPollBeforeInitialDelay ==
    /\ \A i \in 1..Len(log) :
         /\ log[i] = "GET" => (i >= 3 /\ log[1] = "POST" /\ log[2] = "SLEEP_INITIAL")
         /\ log[i] = "SLEEP_INITIAL" => i = 2
    /\ Polls >= 1 => t_get - t_submit >= initial_delay

\* a first poll issued exactly initial_delay after the submit response
C1_Witness ==
    /\ Polls = 1
    /\ initial_delay = MaxInitialDelay
    /\ t_get = t_submit + initial_delay

\* C2: when the polls received E0103 exactly k times (k <= max_retries) and
\* then a final reply with a non-empty answer X, the generator has yielded
\* exactly the one chunk X, raised nothing and issued exactly k+1 polls; and
\* up to max_retries E0103 replies are all tolerated (none raises APIError).
C2_TransientThenFinal ==
    /\ (Polls >= 1 /\ LastReply = "final" /\ EarlierReplies("E0103")
            /\ Polls - 1 <= max_retries)
         => /\ chunks = <<query_response.data.user_answer>>
            /\ query_response.data.user_answer = "X"
            /\ exc = NoException
            /\ pc \in {"yielded", "done"}
            /\ Logged("GET") = (Polls - 1) + 1
            /\ retry_count = Polls - 1
    /\ (Polls >= 1 /\ AllReplies("E0103") /\ Polls <= max_retries)
         => /\ exc.type # "APIError"
            /\ retry_count = Polls

\* the whole retry budget used, then the final answer
C2_Witness ==
    /\ max_retries = MaxRetries
    /\ Polls = max_retries + 1
    /\ EarlierReplies("E0103")
    /\ LastReply = "final"
    /\ pc = "done"
    /\ chunks = <<"X">>

\* C3 as stated: a run whose polls all received E0103 ends in APIError,
\* whatever timeout and max_retries are.
C3_AlwaysApiError ==
    (Terminated /\ Polls >= 1 /\ AllReplies("E0103")) => exc.type = "APIError"

\* C3 amended: a run whose polls all received E0103 ends in APIError exactly
\* when the E0103 beyond the budget was received (poll max_retries+1, or the
\* first poll when max_retries <= 0); otherwise it ends in TimeoutError, the
\* elapsed time having reached timeout before that poll could start, and it
\* always does when timeout <= max_retries.
C3_ApiErrorUnlessTimeoutFirst ==
    (Terminated /\ Polls >= 1 /\ AllReplies("E0103"))
      => /\ pc = "raised"
         /\ \/ /\ exc.type = "APIError"
               /\ exc.response = query_response
               /\ Polls = (IF max_retries > 0 THEN max_retries ELSE 0) + 1
            \/ /\ exc.type = "TimeoutError"
               /\ Polls <= max_retries
               /\ clock - start_time >= timeout
         /\ timeout <= max_retries => exc.type = "TimeoutError"

\* the budget exhausted within the timeout
C3_Witness ==
    /\ max_retries = MaxRetries
    /\ Polls = max_retries + 1
    /\ AllReplies("E0103")
    /\ exc.type = "APIError"

\* C4: a terminated run none of whose polls was final (each got a successful
\* non-final status) has failed with TimeoutError, after the elapsed time
\* reached timeout, and the suggestion names the configured timeout and no
\* other value.
C4_TimeoutNamesTimeout ==
    (Terminated /\ conv_id # Absent /\ AllReplies("pending"))
      => /\ exc.type = "TimeoutError"
         /\ clock - start_time >= timeout
         /\ \A t \in TimeoutValues : (exc.suggestion = TimeoutSuggestion(t)) <=> (t = timeout)

\* timed out after several non-final polls
C4_Witness ==
    /\ exc.type = "TimeoutError"
    /\ Polls >= 2
    /\ AllReplies("pending")
    /\ timeout = MaxTimeout

\* C5: a final reply without an answer (empty or absent) ends the sequence
\* with zero chunks and no error, and it is the last poll of the run.
C5_EmptyFinal ==
    /\ LastReply = "final_empty"
         => /\ pc = "done"
            /\ chunks = <<>>
            /\ exc = NoException
            /\ LastLogged = "GET"
    /\ \A i \in 1..(Len(replies) - 1) : replies[i] # "final_empty"

\* an empty completion after some waiting
C5_Witness ==
    /\ LastReply = "final_empty"
    /\ Polls >= 2
    /\ pc = "done"
    /\ query_response.data.user_answer = ""

\* C6 as stated: a submit response with success false, or with success true
\* but no conv_id in its data, ends the run in APIError carrying that raw
\* response, with the POST as the only request or wait of the run; and a poll
\* is issued only after a submit response with success true and a conv_id.
C6_SubmitFailureIsApiError ==
    /\ (/\ response.kind = "dict"
        /\ \/ ~Truthy(response.success)
           \/ ~(response.data.t = "dict" /\ Truthy(response.data.conv_id)))
         => /\ pc = "raised"
            /\ exc.type = "APIError"
            /\ exc.response = response
            /\ log = <<"POST">>
    /\ Polls >= 1
         => /\ Truthy(response.success)
            /\ response.data.t = "dict"
            /\ conv_id = response.data.conv_id
            /\ Truthy(conv_id)

\* C7: a poll reply that reports failure with a code other than E0103 ends
\* the run in APIError carrying that reply, right after that poll (nothing is
\* logged after the GET), whatever the retry counter and the time left; such
\* a reply is therefore always the last of the run.
C7_FailedPollIsFatal ==
    /\ LastReply = "failed"
         => /\ pc = "raised"
            /\ exc.type = "APIError"
            /\ exc.message = "Failed to query chat status"
            /\ exc.response = query_response
            /\ LastLogged = "GET"
    /\ \A i \in 1..(Len(replies) - 1) : replies[i] # "failed"

\* a failure with another code, received with retry budget and time left
C7_Witness ==
    /\ LastReply = "failed"
    /\ query_response.code = "E0001"
    /\ retry_count >= 1
    /\ retry_count < max_retries
    /\ clock - start_time < timeout

\* C8: the budget runs from the end of the initial delay.  At the loop
\* condition a poll can start exactly when the time since the initial sleep
\* returned is below timeout, and TimeoutError exactly when it is not; every
\* poll started below timeout and every TimeoutError was raised at or above
\* it; the loop is entered with zero elapsed; with timeout <= 0 no poll is
\* issued and a run that got its conv_id ends in TimeoutError.
C8_BudgetFromEndOfInitialDelay ==
    /\ pc = "while"
         => /\ (ENABLED Poll) <=> (clock - t_sleep_end < timeout)
            /\ (ENABLED Timeout) <=> ~(clock - t_sleep_end < timeout)
    /\ Polls >= 1 => (t_sleep_end <= t_get /\ t_get - t_sleep_end < timeout)
    /\ exc.type = "TimeoutError" => clock - t_sleep_end >= timeout
    /\ (pc = "while" /\ LastLogged = "SLEEP_INITIAL") => clock - start_time = 0
    /\ timeout <= 0
         => /\ Polls = 0
            /\ (Terminated /\ conv_id # Absent) => exc.type = "TimeoutError"

\* a poll started when the time since the submit response, initial delay
\* included, had already reached timeout
C8_Witness ==
    /\ Polls >= 1
    /\ initial_delay >= 1
    /\ timeout >= 1
    /\ t_get - t_submit >= timeout

\* C9 as stated: no poll is started later than timeout seconds after the
\* start of the initial delay (the sleep starts when the submit returns).
C9_BoundedFromStartOfInitialDelay ==
    Polls >= 1 => t_get - t_submit <= timeout

\* C9 amended: start_time is read when the initial sleep has returned, at
\* least initial_delay after it began, and every poll starts less than
\* timeout seconds after start_time (so up to initial_delay + timeout, plus
\* any oversleep, after the start of the initial delay).
C9_BoundedFromEndOfInitialDelay ==
    /\ pc \notin {"submit", "initial_sleep"} /\ conv_id # Absent
         => /\ start_time = t_sleep_end
            /\ start_time - t_submit >= initial_delay
    /\ Polls >= 1
         => /\ t_get - start_time < timeout
            /\ t_get - t_submit < timeout + (t_sleep_end - t_submit)

\* a poll started later than timeout after the start of the initial delay
C9_Witness ==
    /\ Polls >= 2
    /\ timeout >= 1
    /\ t_get - t_submit > timeout

\* C10 as stated: a terminated run ended in exactly one of success, APIError
\* and TimeoutError; TimeoutError only when the loop was left because the
\* elapsed time reached timeout with no final reply, never after a failed
\* submit or a failed poll; and neither of APIError and TimeoutError is a
\* subclass of the other.
C10_ThreeOutcomes ==
    /\ Terminated
         => /\ \/ pc = "done" /\ exc = NoException
               \/ pc = "raised" /\ exc.type \in {"APIError", "TimeoutError"}
            /\ exc.type = "TimeoutError"
                 => /\ clock - start_time >= timeout
                    /\ conv_id # Absent
                    /\ LastReply \in {"none", "pending", "E0103"}
                    /\ LastLogged \in {"SLEEP_INITIAL", "SLEEP"}
    /\ ~IsSubclass("TimeoutError", "APIError")
    /\ ~IsSubclass("APIError", "TimeoutError")

\* C11: a run yields at most one chunk; a chunk comes only from a reply with
\* is_final true and is that reply's user_answer (a non-final reply yields
\* nothing, whatever user_answer it carries); a final reply is the last poll
\* of the run and leaves the generator at its yield or finished.
C11_AtMostOneFinalChunk ==
    /\ Len(chunks) <= 1
    /\ chunks # <<>>
         => /\ LastReply = "final"
            /\ query_response.data.is_final = "true"
            /\ chunks = <<query_response.data.user_answer>>
    /\ LastReply \in {"pending", "E0103"} => chunks = <<>>
    /\ \A i \in 1..(Len(replies) - 1) : replies[i] \notin {"final", "final_empty"}
    /\ LastReply \in {"final", "final_empty"}
         => /\ pc \in {"yielded", "done"}
            /\ LastLogged = "GET"
            /\ exc = NoException

\* a non-final reply that carries answer text: nothing is yielded, the run
\* waits for the next poll
C11_Witness ==
    /\ LastReply = "pending"
    /\ query_response.data.is_final = "false"
    /\ query_response.data.user_answer = "X"
    /\ pc = "sleep"
    /\ chunks = <<>>

\* what _make_request can raise for the responses a server may send
TransportErrors ==
    {MakeRequest(w).exc : w \in {x \in SubmitWires \cup PollWires : MakeRequest(x).raised}}

\* C14: a transport failure (connection error, non-2xx status, undecodable
\* 2xx body) during the submit or a poll ends the run at that request: the
\* request is the last thing the session did, no earlier poll had failed in
\* the transport, and the exception that leaves the generator is the
\* APIError _make_request raised, not a TimeoutError and not the protocol's
\* own "Failed to ..." errors.
C14_TransportFailureIsFatal ==
    /\ LastReply = "transport_error"
         => /\ pc = "raised"
            /\ exc \in TransportErrors
            /\ exc.type = "APIError"
            /\ LastLogged = "GET"
    /\ \A i \in 1..(Len(replies) - 1) : replies[i] # "transport_error"
    /\ (log # <<>> /\ response = Unbound)
         => /\ pc = "raised"
            /\ exc \in TransportErrors
            /\ exc.type = "APIError"
            /\ log = <<"POST">>

\* an HTTP 500 on a later poll, with time left in the budget
C14_Witness ==
    /\ LastReply = "transport_error"
    /\ Polls >= 2
    /\ exc.status_code = {500}
    /\ clock - start_time < timeout

\* C12: once the caller has abandoned the sequence, the session issues no
\* request: abandoning runs no request itself (the log is still empty, or
\* still ends with the poll that produced the chunk), and in the closed
\* state no step of the session is possible any more.
C12_NoRequestAfterAbandon ==
    pc = "closed"
      => /\ ~ENABLED NextAbandon
         /\ \/ log = <<>>
            \/ /\ LastLogged = "GET"
               /\ LastReply = "final"
               /\ Logged("GET") = Polls
               /\ Logged("POST") = 1

\* abandoned at the yield, with the chunk in hand
C12_Witness ==
    /\ pc = "closed"
    /\ chunks = <<"X">>
    /\ Polls >= 2

\* C13: chat_async returns only when the generator is exhausted, and then
\* exactly the concatenation of the chunks it yielded, in order ("" for zero
\* chunks); when the generator raised, chat_async raises that same exception
\* and returns nothing.  Submit -> conv_id c1, a non-final poll, then a final
\* poll with an answer gives that answer; joining <<"Hello!">> gives the
\* literal "Hello!".
C13_ChatAsyncJoins ==
    /\ async_out.kind = "returned"
         => /\ pc = "done"
            /\ exc = NoException
            /\ result_chunks = chunks
            /\ async_out.value = (IF chunks = <<>> THEN "" ELSE chunks[1])
    /\ async_out.kind = "raised"
         => /\ pc = "raised"
            /\ async_out.exc = exc
            /\ async_out.value = ""
    /\ exc.type \in {"APIError", "TimeoutError"} => async_out.kind # "returned"
    /\ (replies = <<"pending", "final">> /\ async_out # NoOutcome)
         => /\ async_out.kind = "returned"
            /\ async_out.value = query_response.data.user_answer
            /\ async_out.value = "X"
    /\ Join(<<>>) = ""
    /\ Join(<<"Hello!">>) = "Hello!"
    /\ Join(<<"Hel", "lo", "!">>) = "Hello!"

\* the end-to-end scenario: c1, one non-final poll, the final answer
C13_Witness ==
    /\ conv_id = "c1"
    /\ replies = <<"pending", "final">>
    /\ async_out.kind = "returned"
    /\ async_out.value = "X"

\* C15: two sessions of one client run interleaved, and each keeps its own
\* conv_id, retry counter and start time: the frame of either session holds
\* the arguments of its own call, the conv_id of its own submit response, as
\* many retries as its own polls were answered with E0103 and tolerated, and
\* the start time of its own initial sleep; and its outcome is the one its
\* own replies lead to.
CountOf(seq, tag) == Cardinality({i \in 1..Len(seq) : seq[i] = tag})

OwnRetries(s) ==
    CountOf(s.replies, "E0103")
      - (IF s.exc.type = "APIError" /\ s.exc.message = "Failed to query chat status"
         THEN 1 ELSE 0)

Private(s, a) ==
    /\ s.timeout = a.timeout
    /\ s.max_retries = a.max_retries
    /\ s.initial_delay = a.initial_delay
    /\ s.conv_id = (IF s.response = Unbound THEN Absent ELSE GetData(s.response).conv_id)
    /\ s.retry_count = OwnRetries(s)
    /\ s.retry_count <= s.max_retries
    /\ s.start_time = s.t_sleep_end
    /\ Len(s.replies) = CountOf(s.log, "GET")
    /\ s.pc \in {"yielded", "done"}
         <=> (s.replies # <<>> /\ s.replies[Len(s.replies)] = "final")
    /\ (s.exc.type = "APIError")
         <=> /\ s.replies # <<>>
             /\ s.replies[Len(s.replies)] = "E0103"
             /\ CountOf(s.replies, "E0103") > s.max_retries
    /\ s.exc.type = "TimeoutError" => s.exc.suggestion = TimeoutSuggestion(s.timeout)

C15_SessionsArePrivate ==
    /\ Private(Frame, calls[cur])
    /\ Private(other, calls[3 - cur])

\* both sessions have polled, with different conv_ids, different retry
\* budgets, different retry counts and different start times
C15_Witness ==
    /\ conv_id \in ConvIds
    /\ other.conv_id \in ConvIds \ {conv_id}
    /\ max_retries # other.max_retries
    /\ retry_count = 1
    /\ other.retry_count = 0
    /\ other.replies # <<>>
    /\ replies # <<>>
    /\ start_time # other.start_time
    /\ pc = "done"
    /\ other.pc = "raised"

\* ------------------------------------------------- the facade operations
\* delete_conversation, stop_chat, list_conversations and list_models each
\* send one request and turn the response into their result.

MaxFeed == 3

\* all sequences over S of length at most n
SeqsUpTo(S, n) == UNION {[1..k -> S] : k \in 0..n}

\* a "data" member that is a JSON list
ListData(items) == [t |-> "list", items |-> items]

\* bool(response.get("data")) for absent, null or a list
DataTruthy(d) == d.t = "list" /\ d.items # <<>>

\* the chat run stands still
chat == <<args, pc, clock, response, conv_id, retry_count, start_time,
          query_response, chunks, exc, log, replies, t_submit, t_sleep_end, t_get, exchanges>>

\* what the server does with a request whatever the endpoint
FailureWires ==
    {Wire("error", 200, "empty", EmptyDict),
     Wire("ok", 500, "garbage", EmptyDict),
     Wire("ok", 500, "json", Envelope("false", "E0001", NullData)),
     Wire("ok", 200, "garbage", EmptyDict),
     Wire("ok", 200, "empty", EmptyDict)}

\* the responses to delete and stop
FlagWires ==
    FailureWires
    \cup {Wire("ok", 200, "json", Envelope(s, c, d)) :
            s \in {"true", "false", Absent}, c \in {Absent, "E0001"},
            d \in {AbsentData, NullData}}

\* the entries of the conversation list and of the model feed
ConversationItems == [conv_uid : ConvIds]
ModelItems == [model_name : {"a", "b", ""}, healthy : {"true", "false"}, host : {"h1", "h2"}]

ListWires(items) ==
    FailureWires
    \cup {Wire("ok", 200, "json", Envelope(s, Absent, d)) :
            s \in {"true", "false", Absent},
            d \in {AbsentData, NullData} \cup {ListData(f) : f \in SeqsUpTo(items, MaxFeed)}}

FacadeReturned(flag, items) == [kind |-> "returned", flag |-> flag, items |-> items, exc |-> NoException]
FacadeRaised(e) == [kind |-> "raised", flag |-> Absent, items |-> <<>>, exc |-> e]

\* lines 174 and 238: return response.get("success", False)
\* (variant: a reported failure raised as APIError)
SuccessFlag_Raising(resp) ==
    IF Truthy(resp.success) THEN FacadeReturned("true", <<>>)
    ELSE FacadeRaised(APIError("Failed", {}, resp, ""))
SuccessFlag(resp) == FacadeReturned(GetOr(resp.success, "false"), <<>>)

\* lines 201-203: the items of a successful non-empty response, else []
ListResult(resp) ==
    IF Truthy(resp.success) /\ DataTruthy(resp.data) THEN resp.data.items ELSE <<>>

\* line 218: model_name and model_name not in seen_names
\* (variant: every healthy entry kept)
IsNewName_NoDedup(name, seen) == Truthy(name)
IsNewName(name, seen) == Truthy(name) /\ name \notin seen

\* lines 214-221: the loop over the feed
RECURSIVE HealthyModels(_, _)
HealthyModels(feed, seen) ==
    IF feed = <<>> THEN <<>>
    ELSE LET item == Head(feed)
         IN IF Truthy(item.healthy) /\ IsNewName(item.model_name, seen)
            THEN <<item>> \o HealthyModels(Tail(feed), seen \cup {item.model_name})
            ELSE HealthyModels(Tail(feed), seen)

\* lines 211-222: list_models on a response
ModelsResult(resp) ==
    IF Truthy(resp.success) /\ DataTruthy(resp.data)
    THEN HealthyModels(resp.data.items, {})
    ELSE <<>>

ListConversationsResult(resp) == FacadeReturned(Absent, ListResult(resp))
ListModelsResult(resp) == FacadeReturned(Absent, ModelsResult(resp))

\* what each operation makes of the response
FacadeResult(name, resp) ==
    CASE name \in {"delete_conversation", "stop_chat"} -> SuccessFlag(resp)
      [] name = "list_conversations" -> ListConversationsResult(resp)
      [] name = "list_models" -> ListModelsResult(resp)

\* one facade operation: the request, then its result; what the transport
\* raises passes through (no try block in the facade).  A run of the facade
\* follows one call.
FacadeCall(name, wires) ==
    /\ fop = "none"
    /\ \E w \in wires :
         LET r == MakeRequest(w)
         IN /\ fop' = name
            /\ fwire' = w
            /\ fout' = IF r.raised THEN FacadeRaised(r.exc) ELSE FacadeResult(name, r.value)
    /\ UNCHANGED <<session, created, used, requested, scope, last_call, http_wire, http_out>>
    /\ UNCHANGED <<chat, result_chunks, async_out, cur, other, calls, more>>

\* lines 161-174
DeleteConversation == FacadeCall("delete_conversation", FlagWires)

\* lines 225-238
StopChat == FacadeCall("stop_chat", FlagWires)

\* lines 176-203
ListConversations == FacadeCall("list_conversations", ListWires(ConversationItems))

\* lines 205-223
ListModels == FacadeCall("list_models", ListWires(ModelItems))

\* no chat is running
ChatIdle ==
    /\ timeout = 0
    /\ max_retries = 0
    /\ initial_delay = 0
    /\ InitRun

InitFacade ==
    /\ ChatIdle
    /\ AuxIdle

NextFacade ==
    \/ DeleteConversation
    \/ StopChat
    \/ ListConversations
    \/ ListModels

SpecFacade == InitFacade /\ [][NextFacade]_vars

\* the server answered with an envelope (HTTP 2xx, JSON body)
Enveloped == fwire.conn = "ok" /\ IsSuccessStatus(fwire.status) /\ fwire.content = "json"

C17_NonSuccessIsApiError ==
    (/\ fop \in {"list_conversations", "list_models"}
     /\ Enveloped
     /\ fwire.json.success = "false")
    => /\ fout.kind = "raised"
       /\ fout.exc.type = "APIError"

\* list_models answered with a feed in a successful envelope
FeedReturned ==
    /\ fop = "list_models"
    /\ Enveloped
    /\ fwire.json.success = "true"
    /\ fwire.json.data.t = "list"

Feed == fwire.json.data.items

\* the healthy entries of the feed named n, by position
HealthyNamed(feed, n) ==
    {i \in 1..Len(feed) : feed[i].healthy = "true" /\ feed[i].model_name = n}

Least(I) == CHOOSE i \in I : \A j \in I : i <= j

\* the names that have a healthy entry in the feed
HealthyNames(feed) ==
    {feed[i].model_name : i \in {j \in 1..Len(feed) : feed[j].healthy = "true"}}

\* the entries of feed at the positions I, in feed order
RECURSIVE Pick(_, _)
Pick(feed, I) ==
    IF I = {} THEN <<>>
    ELSE <<feed[Least(I)]>> \o Pick(feed, I \ {Least(I)})

\* for every name of `names`: one entry in the result, the first healthy
\* entry of that name in the feed
OnePerName(result, feed, names) ==
    \A n \in names :
        /\ Cardinality({i \in 1..Len(result) : result[i].model_name = n}) = 1
        /\ \E i \in 1..Len(result) : result[i] = feed[Least(HealthyNamed(feed, n))]

\* C18 (as stated): for each model_name that has a healthy entry the result
\* holds exactly one entry, the first healthy entry of that name.
C18_OnePerHealthyName ==
    FeedReturned => OnePerName(fout.items, Feed, HealthyNames(Feed))

\* C18 (amended): for each non-empty model_name that has a healthy entry the
\* result of list_models holds exactly one entry, the first healthy entry of
\* that name in feed order; the result is these entries in feed order, so it
\* holds no name twice and no unhealthy entry.  A healthy entry whose
\* model_name is empty is left out.
C18_OnePerNonEmptyHealthyName ==
    FeedReturned
    => LET names == HealthyNames(Feed) \ {""}
           result == fout.items
       IN /\ fout.kind = "returned"
          /\ OnePerName(result, Feed, names)
          /\ result = Pick(Feed, {Least(HealthyNamed(Feed, n)) : n \in names})
          /\ \A i \in 1..Len(result) :
                /\ result[i].healthy = "true"
                /\ result[i].model_name # ""
                /\ \A j \in 1..Len(result) :
                      result[i].model_name = result[j].model_name => i = j

\* two healthy entries named "a" after an unhealthy one: the first healthy
\* one is returned alone
C18_Witness ==
    /\ FeedReturned
    /\ Feed = <<[model_name |-> "a", healthy |-> "false", host |-> "h1"],
                [model_name |-> "a", healthy |-> "true", host |-> "h2"],
                [model_name |-> "a", healthy |-> "true", host |-> "h1"]>>
    /\ fout.items = <<[model_name |-> "a", healthy |-> "true", host |-> "h2"]>>

\* ------------------------------------------------------- the HTTP client
\* One OpenDeriskHttpClient: requests, close, and the with block.

MaxSessions == 3

\* what the server (or the network) does with a request
TransportBodies ==
    {EmptyDict, Envelope("true", Absent, AbsentData), Envelope("false", "E0001", NullData)}

TransportWires ==
    {Wire("error", 200, "empty", EmptyDict)}
    \cup {Wire("ok", s, c, EmptyDict) : s \in {200, 204, 301, 404, 500}, c \in {"empty", "garbage"}}
    \cup {Wire("ok", s, "json", b) : s \in {200, 201, 404, 500}, b \in TransportBodies}

\* lines 34-46, the client property: the session held, or a new one
\* (variant: a new httpx.Client for every request)
ClientProperty_AlwaysNew(held, count) == count + 1
ClientProperty(held, count) == IF held = 0 THEN count + 1 ELSE held

\* lines 48-110 (and get/post/put/delete, lines 119-133): self.client is
\* evaluated, then the request is made; APIError leaves the session in place
Request ==
    /\ session # 0 \/ created < MaxSessions
    /\ \E w \in TransportWires :
         /\ http_wire' = w
         /\ http_out' = MakeRequest(w)
    /\ session' = ClientProperty(session, created)
    /\ created' = IF session' \in 1..created THEN created ELSE created + 1
    /\ used' = used \cup {session'}
    /\ requested' = TRUE
    /\ last_call' = "request"
    /\ UNCHANGED scope
    /\ UNCHANGED <<chat, result_chunks, async_out, cur, other, calls, fop, fwire, fout, more>>

\* lines 159-163: if self._client: self._client.close(); self._client = None
AfterClose(held) == 0

CloseEffect ==
    /\ session' = AfterClose(session)
    /\ used' = {}
    /\ requested' = FALSE
    /\ UNCHANGED <<created, http_wire, http_out>>
    /\ UNCHANGED <<chat, result_chunks, async_out, cur, other, calls, fop, fwire, fout, more>>

Close ==
    /\ CloseEffect
    /\ last_call' = "close"
    /\ UNCHANGED scope

\* lines 165-166: __enter__ returns self
Enter ==
    /\ scope = "out"
    /\ scope' = "in"
    /\ last_call' = "enter"
    /\ UNCHANGED <<session, created, used, requested, http_wire, http_out>>
    /\ UNCHANGED <<chat, result_chunks, async_out, cur, other, calls, fop, fwire, fout, more>>

\* lines 168-169: __exit__ calls close, whether the block ended normally or
\* by an exception (which it lets through)
Exit ==
    /\ scope = "in"
    /\ scope' = "out"
    /\ CloseEffect
    /\ \E raised \in BOOLEAN :
         last_call' = IF raised THEN "exit_exception" ELSE "exit"

InitHttp ==
    /\ ChatIdle
    /\ AuxIdle

NextHttp ==
    \/ Request
    \/ Close
    \/ Enter
    \/ Exit

SpecHttp == InitHttp /\ [][NextHttp]_vars

\* what a caller can tell from the APIError it catches
Category(e) ==
    IF e.type # "APIError" THEN "none"
    ELSE IF e.status_code # {} THEN "status"
    ELSE IF e.message = "Network error" THEN "network"
    ELSE IF e.message = "Server returned invalid JSON response" THEN "decode"
    ELSE "other"

\* what happened to the request
WireCategory(w) ==
    IF w.conn = "error" THEN "network"
    ELSE IF ~IsSuccessStatus(w.status) THEN "status"
    ELSE IF w.content = "garbage" THEN "decode"
    ELSE "none"

\* C19 (as stated): a request returns a value only for a 2xx response whose
\* body is valid JSON.
C19_ValueOnlyForValidJson ==
    (last_call = "request" /\ ~http_out.raised)
    => /\ http_wire.conn = "ok"
       /\ IsSuccessStatus(http_wire.status)
       /\ http_wire.content = "json"

\* C19 (amended): a request returns a value only for a 2xx response whose
\* body is valid JSON (the parsed body) or empty (the empty object);
\* otherwise it fails with APIError: "Network error" for a connection-level
\* failure, the status code with the parsed body (or the raw text) for a
\* non-2xx status, "Server returned invalid JSON response" for a non-empty
\* 2xx body that is not JSON; the caller can tell the three apart.
C19_CategorizedFailures ==
    http_wire # NoWire
    => LET w == http_wire
           r == http_out
       IN /\ ~r.raised
               <=> /\ w.conn = "ok"
                   /\ IsSuccessStatus(w.status)
                   /\ w.content \in {"json", "empty"}
          /\ ~r.raised => r.value = (IF w.content = "json" THEN w.json ELSE EmptyDict)
          /\ r.raised => r.exc.type = "APIError"
          /\ Category(r.exc) = WireCategory(w)
          /\ WireCategory(w) = "network"
               => r.exc.message = "Network error" /\ r.exc.status_code = {}
          /\ WireCategory(w) = "status"
               => /\ r.exc.status_code = {w.status}
                  /\ r.exc.response = (IF w.content = "json" THEN w.json ELSE TextDict)
          /\ WireCategory(w) = "decode"
               => /\ r.exc.message = "Server returned invalid JSON response"
                  /\ r.exc.status_code = {}

\* a 404 whose body is not JSON: the error carries 404 and the raw text
C19_Witness ==
    /\ last_call = "request"
    /\ http_wire = Wire("ok", 404, "garbage", EmptyDict)
    /\ http_out.raised
    /\ http_out.exc.status_code = {404}
    /\ http_out.exc.response = TextDict

\* C20: a session is held exactly when a request was made since construction
\* or the last close; the requests between two closes went through one
\* session; close with no session held leaves the client as it is; and after
\* leaving a with block, normally or by an exception, no session is held.
HttpLifecycle ==
    /\ session # 0 <=> requested
    /\ requested => used = {session}
    /\ ~requested => used = {}
    /\ last_call \in {"close", "exit", "exit_exception"} => session = 0

CloseIsIdempotent ==
    (session = 0 /\ last_call' = "close") => UNCHANGED <<session, created, used, requested>>

C20_SessionLifecycle == []HttpLifecycle /\ [][CloseIsIdempotent]_vars

\* a second session was opened after a close, requests reused it, and the
\* with block was left by an exception
C20_Witness ==
    /\ created = 2
    /\ last_call = "exit_exception"
    /\ session = 0
    /\ http_out.raised

\* --------------------------------------------- the polling loop, further
\* C23: for a retry budget max_retries >= 0 the retry counter stays within
\* 0..max_retries and equals the number of E0103 replies tolerated so far;
\* the E0103 reply that arrives when the counter equals max_retries is
\* fatal, so a run that received nothing but E0103 and failed on it made
\* exactly max_retries + 1 polls, and its APIError has the message of any
\* other poll failure and carries the failing response.
FatalE0103 == pc = "raised" /\ exc.type = "APIError" /\ LastReply = "E0103"

PollFailure(resp) == APIError("Failed to query chat status", {}, resp, "")

C23_RetryCounterWithinBudget ==
    max_retries >= 0
    => /\ retry_count \in 0..max_retries
       /\ retry_count = CountOf(replies, "E0103") - (IF FatalE0103 THEN 1 ELSE 0)
       /\ (LastReply = "E0103" /\ CountOf(replies, "E0103") > max_retries)
            => /\ FatalE0103
               /\ exc = PollFailure(query_response)
               /\ query_response.code = "E0103"
       /\ (LastReply = "E0103" /\ CountOf(replies, "E0103") <= max_retries)
            => pc \in {"sleep", "while"} \/ exc.type = "TimeoutError"
       /\ (AllReplies("E0103") /\ FatalE0103) => Polls = max_retries + 1
       /\ AllReplies("E0103") => Polls <= max_retries + 1
       /\ (pc = "raised" /\ LastReply = "failed") => exc = PollFailure(query_response)

C23_Witness ==
    /\ max_retries = 2
    /\ replies = <<"E0103", "E0103", "E0103">>
    /\ retry_count = 2
    /\ FatalE0103
    /\ exc = PollFailure(query_response)

\* C25: the polls of a session alternate with 1-second waits: what follows a
\* poll in the log is nothing or one wait, what follows a wait is nothing or
\* a poll, and a wait lasts at least one second; the wait follows a non-final
\* reply and a tolerated E0103 alike, and no wait follows a final reply or a
\* fatal poll failure.
C25_OneSecondCadence ==
    /\ \A i \in 1..(Len(log) - 1) :
         /\ log[i] = "GET" => log[i + 1] = "SLEEP"
         /\ log[i] = "SLEEP" => log[i + 1] = "GET"
         /\ log[i + 1] = "SLEEP" => log[i] = "GET"
    /\ Logged("SLEEP") = Polls - (IF LastLogged = "GET" THEN 1 ELSE 0)
    /\ LastLogged = "SLEEP"
         => /\ clock - t_get >= PollInterval
            /\ clock - t_get <= MaxNetDelay + PollInterval + MaxOversleep
            /\ \/ LastReply = "pending"
               \/ LastReply = "E0103" /\ CountOf(replies, "E0103") <= max_retries
    /\ (Polls >= 1 /\ pc \in {"sleep", "while"} /\ LastLogged = "GET") => pc = "sleep"
    /\ (\/ LastReply \in {"final", "final_empty"}
        \/ Polls >= 1 /\ pc = "raised" /\ exc.type # "TimeoutError")
         => LastLogged = "GET"

\* three polls with a wait after the tolerated E0103 and after the non-final
\* reply, and none after the final one
C25_Witness ==
    /\ replies = <<"E0103", "pending", "final">>
    /\ log = <<"POST", "SLEEP_INITIAL", "GET", "SLEEP", "GET", "SLEEP", "GET">>
    /\ pc = "done"

\* with a timeout >= 0 a run never issues more than timeout polls
PollsWithinTimeout == timeout >= 0 => Polls <= timeout

\* the outcomes the protocol names: success, APIError, TimeoutError
NamedOutcome == Terminated /\ exc.type \in {"none", "APIError", "TimeoutError"}

\* C26 (as stated): when every call returns and every wait advances the
\* clock by at least a second, every run ends in success, APIError or
\* TimeoutError, whatever the server answers; and with a timeout >= 0 a run
\* never issues more than timeout polls.
C26_TerminatesInNamedOutcome == <>NamedOutcome /\ []PollsWithinTimeout

\* C26 (what holds): every run ends, by exhaustion of the generator or by
\* some exception, and the bound on the polls holds.
C26_Terminates == <>Terminated /\ []PollsWithinTimeout

\* a server that answers "not final" at every poll: timeout polls, then
\* TimeoutError
C26_Witness ==
    /\ timeout = MaxTimeout
    /\ Polls = timeout
    /\ AllReplies("pending")
    /\ pc = "raised"
    /\ exc.type = "TimeoutError"

\* C27: the budget is checked only before a poll starts.  A poll starts with
\* elapsed < timeout, and once it returns its response decides: a final
\* reply ends the run in success with the answer yielded, a failure ends it
\* in APIError, also when the elapsed time is by then >= timeout; a
\* TimeoutError is raised only at the loop condition, after a wait.
C27_TimeoutCheckedBeforePoll ==
    /\ LastLogged = "GET"
         => /\ t_get - start_time < timeout
            /\ exc.type # "TimeoutError"
            /\ LastReply = "final"
                 => /\ pc \in {"yielded", "done"}
                    /\ chunks = <<query_response.data.user_answer>>
            /\ LastReply = "final_empty" => pc = "done" /\ chunks = <<>>
            /\ LastReply \in {"failed", "transport_error"}
                 => pc = "raised" /\ exc.type = "APIError"
            /\ LastReply = "pending" => pc = "sleep"
    /\ exc.type = "TimeoutError"
         => /\ LastLogged \in {"SLEEP_INITIAL", "SLEEP"}
            /\ clock - start_time >= timeout

\* a poll that started within the budget and returned after it: the final
\* answer is yielded; and one whose failure is reported as APIError
C27_Witness ==
    /\ timeout >= 1
    /\ t_get - start_time < timeout
    /\ clock - start_time >= timeout
    /\ LastLogged = "GET"
    /\ LastReply = "final"
    /\ pc = "yielded"
    /\ chunks = <<"X">>

\* C28: the retry budget is spent over the whole session.  The counter never
\* decreases; after a non-final reply it still counts every E0103 tolerated
\* before it; and the (max_retries + 1)-th E0103 of the session is fatal
\* however many non-final replies came in between.
RetryCountNeverDecreases == retry_count' >= retry_count

BudgetIsCumulative ==
    /\ LastReply = "pending" => retry_count = CountOf(replies, "E0103")
    /\ (/\ max_retries >= 0
        /\ LastReply = "E0103"
        /\ CountOf(replies, "E0103") = max_retries + 1)
         => /\ FatalE0103
            /\ retry_count = max_retries

C28_BudgetIsCumulative == []BudgetIsCumulative /\ [][RetryCountNeverDecreases]_vars

\* budget 1: an E0103, a non-final reply, and the second E0103 is fatal
C28_Witness ==
    /\ max_retries = 1
    /\ replies = <<"E0103", "pending", "E0103">>
    /\ FatalE0103

\* C24: a run that has started has sent exactly one POST, to
\* /api/v1/chat/completions, before anything else; every other request is a
\* GET to /api/v1/chat/query carrying the conv_id of the submit response, the
\* same at every poll; nothing else is contacted, the stop endpoint least of
\* all, whether the run ends in success, APIError, TimeoutError or is
\* abandoned by its caller.
Started == pc # "submit" /\ exchanges # <<>>

C24_OneSubmitThenPollsOfItsConv ==
    /\ Len(exchanges) = Logged("POST") + Logged("GET")
    /\ (pc \in {"initial_sleep", "while", "sleep", "yielded", "done", "raised"})
         => Started
    /\ Started
         => /\ exchanges[1].method = "POST"
            /\ exchanges[1].path = "/api/v1/chat/completions"
            /\ \A i \in 2..Len(exchanges) :
                  /\ exchanges[i].method = "GET"
                  /\ exchanges[i].path = "/api/v1/chat/query"
                  /\ exchanges[i].conv_id = GetData(response).conv_id
                  /\ exchanges[i].conv_id = conv_id
                  /\ exchanges[i].conv_id \in ConvIds
                  /\ IsSuccessStatus(exchanges[1].status)
    /\ \A i \in 1..Len(exchanges) : exchanges[i].path # "/api/v1/chat/stop"
    /\ Len(exchanges) = 1 + Polls \/ exchanges = <<>>

\* a session on conversation c2 abandoned at its yield after two polls
C24_Witness ==
    /\ pc = "closed"
    /\ conv_id = "c2"
    /\ Len(exchanges) = 3
    /\ exchanges[2].conv_id = "c2"
    /\ exchanges[3].conv_id = "c2"
    /\ chunks = <<"X">>

\* C29: only an E0103 delivered in the envelope of a 2xx response is
\* tolerated.  The retry counter grows only at a poll answered 2xx with code
\* E0103; a poll answered with a non-2xx status and code E0103 in its body
\* ends the run at once, in the APIError of the transport (status code and
\* body attached), with the counter as it was and no further wait or poll.
LastExchange == exchanges[Len(exchanges)]

RetryOnlyOnDelivered ==
    retry_count' > retry_count
    => /\ IsSuccessStatus(exchanges'[Len(exchanges')].status)
       /\ exchanges'[Len(exchanges')].method = "GET"
       /\ query_response'.code = "E0103"
       /\ retry_count' = retry_count + 1

RejectedE0103IsFatal ==
    (/\ Polls >= 1
     /\ LastLogged = "GET"
     /\ LastExchange.status >= 300
     /\ exc.response.code = "E0103")
    => /\ pc = "raised"
       /\ exc.type = "APIError"
       /\ exc.message = "API request failed"
       /\ exc.status_code = {LastExchange.status}
       /\ LastReply = "transport_error"
       /\ retry_count = CountOf(replies, "E0103")
       /\ retry_count <= max_retries \/ max_retries < 0

C29_OnlyDeliveredE0103IsTransient ==
    []RejectedE0103IsFatal /\ [][RetryOnlyOnDelivered]_vars

\* the first poll answered 500 with E0103 in the body while the whole retry
\* budget is unused
C29_Witness ==
    /\ max_retries = MaxRetries
    /\ Polls = 1
    /\ LastExchange.status = 500
    /\ exc.response.code = "E0103"
    /\ retry_count = 0
    /\ pc = "raised"

\* -------------------------------------------------- the submission payload
\* lines 56-76: the ChatCompletionRequest chat_completions builds from its
\* arguments, and its model_dump(exclude_none=True)

\* None as the value of an optional list argument
NoneList == [t |-> "null", items |-> <<>>]

PayloadArgs ==
    [t : {"args"},
     user_input : {"", "hi"},
     messages : {NoneList, ListData(<<>>), ListData(<<"m1">>)},
     conv_uid : {Null, "c1"},
     app_code : {Null, "app"},
     model_name : {Null, "m"},
     temperature : {Null, "0.5"},
     max_new_tokens : {Null, "64"},
     incremental : {"true", "false"},
     user_name : {Null, "", "bob"}]

\* exclude_none=True: a member whose value is None is left out
ExcludeNone(v) == IF v = Null THEN Absent ELSE v

\* line 64: user_name=user_name or "cli_user"
OrDefault(v, default) == IF Truthy(v) THEN v ELSE default

\* line 57: user_input=user_input, whatever messages is
\* (variant: the text dropped when a message list is given)
UserInputField_OnlyWithoutMessages(a) ==
    IF a.messages.t = "list" /\ a.messages.items # <<>> THEN "" ELSE a.user_input
UserInputField(a) == a.user_input

\* lines 56-74
BuildBody(a) ==
    [t |-> "body",
     user_input |-> UserInputField(a),
     messages |-> IF a.messages.t = "null" THEN [t |-> "absent", items |-> <<>>] ELSE a.messages,
     conv_uid |-> ExcludeNone(a.conv_uid),
     app_code |-> ExcludeNone(a.app_code),
     model_name |-> ExcludeNone(a.model_name),
     temperature |-> ExcludeNone(a.temperature),
     max_new_tokens |-> ExcludeNone(a.max_new_tokens),
     incremental |-> a.incremental,
     user_name |-> OrDefault(a.user_name, "cli_user"),
     work_mode |-> "async"]

\* the caller's arguments, before anything is built
InitPayload ==
    /\ ChatIdle
    /\ result_chunks = <<>>
    /\ async_out = NoOutcome
    /\ cur = 0
    /\ other = <<>>
    /\ calls = <<>>
    /\ fop = "none"
    /\ fwire = NoWire
    /\ fout = NoFacadeOutcome
    /\ session = 0
    /\ created = 0
    /\ used = {}
    /\ requested = FALSE
    /\ scope = "out"
    /\ last_call = "init"
    /\ http_wire = NoWire
    /\ http_out = Returned(Unbound)
    /\ call \in PayloadArgs
    /\ body = NoBody
    /\ cfg_in = NoConfig
    /\ cfg = NoConfig
    /\ tpc = <<>>
    /\ open_sessions = {}

\* lines 56-76: request = ChatCompletionRequest(...); body = request.model_dump(exclude_none=True)
BuildRequest ==
    /\ body = NoBody
    /\ body' = BuildBody(call)
    /\ UNCHANGED <<call, cfg_in, cfg, tpc, open_sessions>>
    /\ UNCHANGED <<chat, result_chunks, async_out, cur, other, calls>>
    /\ UNCHANGED <<fop, fwire, fout, session, created, used, requested, scope, last_call,
                   http_wire, http_out>>

NextPayload ==
    \/ BuildRequest

SpecPayload == InitPayload /\ [][NextPayload]_vars

TextPopulated(b) == b.user_input # ""
MessagesPopulated(b) == b.messages.t = "list" /\ b.messages.items # <<>>

\* C21 (as stated): every body built is driven by exactly one of user_input
\* and messages: never both populated, and at least one populated.
C21_ExactlyOneInput ==
    body # NoBody
    => /\ ~(TextPopulated(body) /\ MessagesPopulated(body))
       /\ TextPopulated(body) \/ MessagesPopulated(body)

\* ------------------------------------------------------- the configuration
\* config.py: OpenDeriskConfig.load, get_env_overrides, get_config; cli.py:
\* the --base-url and --output-format options.

DefaultTimeoutSeconds == 30

\* config.py lines 14-15 and 24: the built-in defaults
DefaultConfig ==
    [base_url |-> "http://localhost:7777", timeout |-> DefaultTimeoutSeconds,
     output_format |-> "table"]

\* os.getenv: a variable is unset, set to the empty string, or set to a text
Unset == "<unset>"
EnvValues ==
    [base_url : {Unset, "", "http://env"},
     timeout : {Unset, "", "45", "abc"},
     output_format : {Unset, "", "json"}]

\* the config file found: which of the three settings it gives, if any
\* (a timeout of -1 stands for a file that does not give one)
FileValues ==
    [base_url : {Absent, "http://file"},
     timeout : {0 - 1, 60},
     output_format : {Absent, "yaml"}]

\* the command line: an option is not given (None), or given with a value
CliValues ==
    [base_url : {Null, "", "http://cli"},
     output_format : {Null, "table"}]

\* int(text): the number, or ValueError
IsIntText(text) == text \in {"45"}
IntOf(text) == CASE text = "45" -> 45

\* config.py lines 54-74: cls(**data), the defaults filling what the file leaves out
LoadConfig(f) ==
    [base_url |-> IF f.base_url = Absent THEN DefaultConfig.base_url ELSE f.base_url,
     timeout |-> IF f.timeout < 0 THEN DefaultConfig.timeout ELSE f.timeout,
     output_format |-> IF f.output_format = Absent THEN DefaultConfig.output_format
                       ELSE f.output_format]

\* config.py lines 102, 104, 106 and cli.py lines 53, 55: `if value := ...`
\* and `if value:` take the override only when it is a non-empty text
\* (variant: the value of the layer below wins)
Override_LowerWins(upper, lower) == lower
Override(upper, lower) == IF upper \notin {Unset, Null, ""} THEN upper ELSE lower

InitConfig ==
    /\ ChatIdle
    /\ result_chunks = <<>>
    /\ async_out = NoOutcome
    /\ cur = 0
    /\ other = <<>>
    /\ calls = <<>>
    /\ fop = "none"
    /\ fwire = NoWire
    /\ fout = NoFacadeOutcome
    /\ session = 0
    /\ created = 0
    /\ used = {}
    /\ requested = FALSE
    /\ scope = "out"
    /\ last_call = "init"
    /\ http_wire = NoWire
    /\ http_out = Returned(Unbound)
    /\ call = NoBody
    /\ body = NoBody
    /\ \E e \in EnvValues, f \in FileValues, c \in CliValues :
         cfg_in = [stage |-> "given", env |-> e, file |-> f, cli |-> c]
    /\ cfg = NoConfig
    /\ tpc = <<>>
    /\ open_sessions = {}

ConfigUnchanged ==
    /\ UNCHANGED <<call, body, cfg_in, tpc, open_sessions>>
    /\ UNCHANGED <<chat, result_chunks, async_out, cur, other, calls>>
    /\ UNCHANGED <<fop, fwire, fout, session, created, used, requested, scope, last_call,
                   http_wire, http_out>>

\* config.py lines 145-153: get_config = load, then get_env_overrides
GetConfig ==
    /\ cfg = NoConfig
    /\ LET loaded == LoadConfig(cfg_in.file)
           e == cfg_in.env
       IN cfg' =
            IF e.timeout \notin {Unset, ""} /\ ~IsIntText(e.timeout)
            THEN [stage |-> "failed", error |-> "ValueError"]
            ELSE [stage |-> "loaded",
                  base_url |-> Override(e.base_url, loaded.base_url),
                  timeout |-> IF Override(e.timeout, "") = "" THEN loaded.timeout
                              ELSE IntOf(e.timeout),
                  output_format |-> Override(e.output_format, loaded.output_format)]
    /\ ConfigUnchanged

\* cli.py lines 50-58: the command-line overrides on what get_config returned
CliOverrides ==
    /\ cfg.stage = "loaded"
    /\ cfg' = [stage |-> "resolved",
               base_url |-> Override(cfg_in.cli.base_url, cfg.base_url),
               timeout |-> cfg.timeout,
               output_format |-> Override(cfg_in.cli.output_format, cfg.output_format)]
    /\ ConfigUnchanged

NextConfig ==
    \/ GetConfig
    \/ CliOverrides

SpecConfig == InitConfig /\ [][NextConfig]_vars

\* what the layers say a setting is: the upper layer's value when it is
\* given, else the lower one's
Given(v) == v \notin {Unset, Null, Absent}
NonEmpty(v) == v \notin {Unset, Null, Absent, ""}

Threads == {1, 2}

InitShared ==
    /\ ChatIdle
    /\ result_chunks = <<>>
    /\ async_out = NoOutcome
    /\ cur = 0
    /\ other = <<>>
    /\ calls = <<>>
    /\ fop = "none"
    /\ fwire = NoWire
    /\ fout = NoFacadeOutcome
    /\ session = 0
    /\ created = 0
    /\ used = {}
    /\ requested = FALSE
    /\ scope = "out"
    /\ last_call = "init"
    /\ http_wire = NoWire
    /\ http_out = Returned(Unbound)
    /\ call = NoBody
    /\ body = NoBody
    /\ cfg_in = NoConfig
    /\ cfg = NoConfig
    /\ tpc = [t \in Threads |-> "idle"]
    /\ open_sessions = {}

SharedUnchanged ==
    /\ UNCHANGED <<call, body, cfg_in, cfg>>
    /\ UNCHANGED <<chat, result_chunks, async_out, cur, other, calls>>
    /\ UNCHANGED <<fop, fwire, fout, requested, scope, http_wire, http_out>>

\* line 37: if self._client is None
ThreadCheck(t) ==
    /\ tpc[t] = "idle"
    /\ tpc' = [tpc EXCEPT ![t] = IF session = 0 THEN "create" ELSE "use"]
    /\ UNCHANGED <<session, created, used, open_sessions, last_call>>
    /\ SharedUnchanged

\* lines 38-45: self._client = httpx.Client(...)
ThreadCreate(t) ==
    /\ tpc[t] = "create"
    /\ created < MaxSessions
    /\ created' = created + 1
    /\ session' = created + 1
    /\ open_sessions' = open_sessions \cup {created + 1}
    /\ tpc' = [tpc EXCEPT ![t] = "use"]
    /\ UNCHANGED <<used, last_call>>
    /\ SharedUnchanged

\* lines 46 and 82: return self._client, and the request made through it
ThreadUse(t) ==
    /\ tpc[t] = "use"
    /\ session # 0
    /\ used' = used \cup {session}
    /\ tpc' = [tpc EXCEPT ![t] = "idle"]
    /\ last_call' = "request"
    /\ UNCHANGED <<session, created, open_sessions>>
    /\ SharedUnchanged

\* lines 159-163: close releases the session self._client refers to
SharedClose ==
    /\ session # 0
    /\ open_sessions' = open_sessions \ {session}
    /\ session' = AfterClose(session)
    /\ used' = {}
    /\ last_call' = "close"
    /\ UNCHANGED <<created, tpc>>
    /\ SharedUnchanged

NextShared ==
    \/ \E t \in Threads : ThreadCheck(t)
    \/ \E t \in Threads : ThreadCreate(t)
    \/ \E t \in Threads : ThreadUse(t)
    \/ SharedClose

SpecShared == InitShared /\ [][NextShared]_vars

\* C30 (as stated): between construction (or a close) and the next close at
\* most one session exists, also when two threads make their first request
\* at the same time; and a close leaves no created session unreleased.
C30_OneSessionNoneLeaked ==
    /\ Cardinality(open_sessions) <= 1
    /\ last_call = "close" => open_sessions = {}

====
